---- MODULE Spec2Model ----
(***************************************************************************)
(* WaferSlipDynamics (src/FMU/wafer_slip_model.py): the slip-risk engine   *)
(* of the wafer aligner, driven by a co-simulation orchestrator            *)
(* (src/FMU/test_fmu.py).                                                  *)
(*                                                                         *)
(* Reals.  A Python float is a binary floating-point number: here a pair   *)
(* <<m, e>> standing for m * 2^e, with a mantissa of MantissaBits bits     *)
(* (2^(MantissaBits-1) <= |m| < 2^MantissaBits, or <<0, 0>> for zero) and  *)
(* an unbounded exponent.  Every literal and every arithmetic step of the  *)
(* source is rounded to the nearest such number, ties to even, in the      *)
(* source's order.  Python's floats have 53 bits; infinities, NaN and      *)
(* subnormal numbers are not modelled.  math.pi is the float nearest to    *)
(* 355/113.                                                                *)
(***************************************************************************)
EXTENDS Integers, Sequences, FiniteSets, TLC

(*************************** floating point ********************************)
\* bits of a float's mantissa
MantissaBits == 11

Pow2(k) == 2^k

IAbs(i) == IF i < 0 THEN 0 - i ELSE i
ISign(i) == IF i < 0 THEN 0 - 1 ELSE 1

\* the number of bits of a >= 0
RECURSIVE BitLength(_)
BitLength(a) ==
    IF a = 0 THEN 0
    ELSE IF a >= 256 THEN 8 + BitLength(a \div 256)
    ELSE 1 + BitLength(a \div 2)

Mant(x) == x[1]
Exp(x) == x[2]
Zero == <<0, 0>>

\* the float nearest to n * 2^e, ties to the even mantissa
Round(n, e) ==
    IF n = 0 THEN Zero
    ELSE LET a == IAbs(n)
             len == BitLength(a)
         IN  IF len <= MantissaBits THEN
                 <<ISign(n) * a * Pow2(MantissaBits - len),
                   e - (MantissaBits - len)>>
             ELSE
                 LET s == len - MantissaBits
                     q == a \div Pow2(s)
                     r == a % Pow2(s)
                     half == Pow2(s - 1)
                     up == r > half \/ (r = half /\ q % 2 = 1)
                     q1 == IF up THEN q + 1 ELSE q
                 IN  IF q1 = Pow2(MantissaBits) THEN
                         <<ISign(n) * Pow2(MantissaBits - 1), e + s + 1>>
                     ELSE <<ISign(n) * q1, e + s>>

\* the float of an integer literal
RInt(i) == Round(i, 0)

\* x * y, rounded
RMul(x, y) == Round(Mant(x) * Mant(y), Exp(x) + Exp(y))

\* x / y, y # 0, rounded: the quotient to MantissaBits + 2 bits and more, and
\* one more bit that tells whether a remainder was left
RDiv(x, y) ==
    LET a == IAbs(Mant(x)) * Pow2(MantissaBits + 2)
        b == IAbs(Mant(y))
        q == a \div b
        sticky == IF a % b = 0 THEN 0 ELSE 1
    IN  Round(ISign(Mant(x)) * ISign(Mant(y)) * (2 * q + sticky),
              Exp(x) - Exp(y) - MantissaBits - 3)

\* the float of the decimal literal n/d
Rat(n, d) == RDiv(RInt(n), RInt(d))

RAbs(x) == <<IAbs(Mant(x)), Exp(x)>>

\* x < y
RECURSIVE RLt(_, _)
RLt(x, y) ==
    IF Mant(x) < 0 /\ Mant(y) < 0 THEN RLt(RAbs(y), RAbs(x))
    ELSE IF Mant(x) <= 0 \/ Mant(y) <= 0 THEN Mant(x) < Mant(y)
    ELSE Exp(x) < Exp(y) \/ (Exp(x) = Exp(y) /\ Mant(x) < Mant(y))

RGt(x, y) == RLt(y, x)
RGe(x, y) == ~RLt(x, y)
RLe(x, y) == ~RLt(y, x)
RSquare(x) == RMul(x, x)

(************************ constants of the source **************************)
Pi == Rat(355, 113)                   \* math.pi
chuck_radius == Rat(30, 1000)         \* 0.030
wafer_density == RInt(2330)           \* 2330 kg/m3
wafer_thickness == Rat(5, 10)         \* 0.5 mm
MilliMetre == Rat(1, 1000)            \* 1e-3
Radius300 == Rat(150, 1000)           \* 0.150
Radius200 == Rat(100, 1000)           \* 0.100
Radius150 == Rat(75, 1000)            \* 0.075
FrictionThreshold == Rat(1, 1000)     \* 0.001
Sentinel == RInt(999)                 \* 999.0
DefaultMu == Rat(6, 10)               \* 0.6
DefaultMargin == Rat(85, 100)         \* 0.85

(******************************* bounds ************************************)
\* wafer_type ranges over -TypeSpan .. 3 + TypeSpan: the three known types
\* and TypeSpan + 1 unknown ones below and TypeSpan above
TypeSpan == 1

WaferTypes == (0 - TypeSpan) .. (3 + TypeSpan)
\* values passed as current_time, step_size and start_time
Times == {0, 1}

VARIABLES
    angular_acceleration, vacuum_pressure, wafer_type,   \* inputs
    slip_factor, max_safe_acceleration, is_slipping,     \* outputs
    mu_friction, safety_margin,                          \* parameters
    wafer_mass, wafer_radius, chuck_area,                \* internal state
    phase,      \* history: lifecycle phase the calls made so far have reached
    lastOp,     \* history: the operation that produced this state
    result,     \* what the last operation returned to its caller
    seen        \* orchestrator: the outputs it read after a step, and for which inputs

inputs == <<angular_acceleration, vacuum_pressure, wafer_type>>
outputs == <<slip_factor, max_safe_acceleration, is_slipping>>
params == <<mu_friction, safety_margin>>
internal == <<wafer_mass, wafer_radius, chuck_area>>
vars == <<inputs, outputs, params, internal, phase, lastOp, result, seen>>

(************************* _update_wafer_properties ************************)
\* wafer_density * (math.pi * (r ** 2) * wafer_thickness * 1e-3)
DiscMass(r) ==
    RMul(wafer_density,
         RMul(RMul(RMul(Pi, RSquare(r)), wafer_thickness), MilliMetre))

\* the final else taken for the 150mm branch: an unknown type keeps no
\* 300mm profile
update_wafer_properties_noFallback(wt) ==
    LET area == RMul(Pi, RSquare(chuck_radius))
    IN  IF wt = 1 THEN
            [wafer_mass |-> DiscMass(Radius300), wafer_radius |-> Radius300,
             chuck_area |-> area]
        ELSE IF wt = 2 THEN
            [wafer_mass |-> DiscMass(Radius200), wafer_radius |-> Radius200,
             chuck_area |-> area]
        ELSE
            [wafer_mass |-> DiscMass(Radius150), wafer_radius |-> Radius150,
             chuck_area |-> area]

\* the contact area taken from the wafer's radius instead of the chuck's
update_wafer_properties_waferArea(wt) ==
    LET r == IF wt = 2 THEN Radius200 ELSE IF wt = 3 THEN Radius150 ELSE Radius300
    IN  [wafer_mass |-> DiscMass(r), wafer_radius |-> r,
         chuck_area |-> RMul(Pi, RSquare(r))]

\* the values _update_wafer_properties assigns for wafer type wt
update_wafer_properties(wt) ==
    LET area == RMul(Pi, RSquare(chuck_radius))
    IN  IF wt = 1 THEN
            [wafer_mass |-> DiscMass(Radius300), wafer_radius |-> Radius300,
             chuck_area |-> area]
        ELSE IF wt = 2 THEN
            [wafer_mass |-> DiscMass(Radius200), wafer_radius |-> Radius200,
             chuck_area |-> area]
        ELSE IF wt = 3 THEN
            [wafer_mass |-> DiscMass(Radius150), wafer_radius |-> Radius150,
             chuck_area |-> area]
        ELSE
            [wafer_mass |-> DiscMass(Radius300), wafer_radius |-> Radius300,
             chuck_area |-> area]

(***************************** lifecycle table *****************************)
\* The phases of the co-simulation protocol.  WaferSlipDynamics stores no
\* phase; `phase` records where the calls made so far stand in the protocol.
Phases == {"Instantiated", "ExperimentConfigured", "InitializationMode",
           "Running", "Terminated"}

\* the phases an operation is valid from
ValidFrom(op) ==
    CASE op = "setup_experiment" -> {"Instantiated"}
      [] op = "enter_initialization_mode" -> {"ExperimentConfigured"}
      [] op = "exit_initialization_mode" -> {"InitializationMode"}
      [] op = "do_step" -> {"Running"}
      [] op = "terminate" -> {"Running"}
      [] op = "reset" -> {"Terminated", "Running"}
      [] OTHER -> Phases

\* the phase an operation leads to
LeadsTo(op, ph) ==
    CASE op = "setup_experiment" -> "ExperimentConfigured"
      [] op = "enter_initialization_mode" -> "InitializationMode"
      [] op = "exit_initialization_mode" -> "Running"
      [] op = "terminate" -> "Terminated"
      [] op = "reset" -> "Instantiated"
      [] OTHER -> ph

\* the phase after op is called in phase ph: a call out of order is no
\* part of the protocol and leaves the phase where it was
PhaseAfter(op, ph) == IF ph \in ValidFrom(op) THEN LeadsTo(op, ph) ELSE ph

LifecycleOps == {"setup_experiment", "enter_initialization_mode",
                 "exit_initialization_mode", "terminate", "reset"}

NoneSeen == [taken |-> FALSE]

(******************************** __init__ *********************************)
Init ==
    LET w == update_wafer_properties(1)
    IN  /\ angular_acceleration = Zero
        /\ vacuum_pressure = Zero
        /\ wafer_type = 1
        /\ slip_factor = Zero
        /\ max_safe_acceleration = Zero
        /\ is_slipping = FALSE
        /\ mu_friction = DefaultMu
        /\ safety_margin = DefaultMargin
        /\ wafer_mass = w.wafer_mass
        /\ wafer_radius = w.wafer_radius
        /\ chuck_area = w.chuck_area
        /\ phase = "Instantiated"
        /\ lastOp = "__init__"
        /\ result = "True"
        /\ seen = NoneSeen

(********************************* do_step *********************************)
\* the pressure used with its sign, abs() left out
friction_force_signed(mu, p, area) == RMul(mu, RMul(p, area))

\* pressure_diff = abs(vacuum_pressure); mu_friction * (pressure_diff * chuck_area)
friction_force(mu, p, area) == RMul(mu, RMul(RAbs(p), area))

\* the acceleration used with its sign, abs() left out
inertial_force_signed(m, r, a) == RMul(RMul(m, r), a)

\* wafer_mass * wafer_radius * abs(angular_acceleration)
inertial_force(m, r, a) == RMul(RMul(m, r), RAbs(a))

\* the sentinel written as 1.0 ("fully slipping") instead of 999.0
SlipFactor_unitSentinel(inertial, friction) ==
    IF RGt(friction, FrictionThreshold) THEN RDiv(inertial, friction)
    ELSE RInt(1)

\* lines 127-130
SlipFactor(inertial, friction) ==
    IF RGt(friction, FrictionThreshold) THEN RDiv(inertial, friction)
    ELSE Sentinel

\* the force divided by the mass alone, the radius left out
MaxSafeAcceleration_massOnly(friction, m, r) ==
    IF RGt(m, Zero) /\ RGt(r, Zero) THEN RDiv(friction, m)
    ELSE Zero

\* lines 133-136
MaxSafeAcceleration(friction, m, r) ==
    IF RGt(m, Zero) /\ RGt(r, Zero) THEN RDiv(friction, RMul(m, r))
    ELSE Zero

\* the threshold written into the comparison instead of read from the parameter
IsSlipping_fixedMargin(sf, margin) == RGt(sf, DefaultMargin)

\* line 139
IsSlipping(sf, margin) == RGt(sf, margin)

\* lines 119-141: the outputs of a step computed from wafer and chuck
\* properties w
StepWith(w) ==
    LET friction == friction_force(mu_friction, vacuum_pressure, w.chuck_area)
        inertial == inertial_force(w.wafer_mass, w.wafer_radius, angular_acceleration)
        sf == SlipFactor(inertial, friction)
    IN  /\ slip_factor' = sf
        /\ max_safe_acceleration' =
               MaxSafeAcceleration(friction, w.wafer_mass, w.wafer_radius)
        /\ is_slipping' = IsSlipping(sf, safety_margin)
        /\ result' = "True"
        /\ lastOp' = "do_step"
        /\ phase' = PhaseAfter("do_step", phase)
        /\ UNCHANGED <<inputs, params, seen>>

\* the properties refreshed at the end of the step instead of its start: the
\* step computes with the properties of the previous step's wafer type
do_step_refreshLast(current_time, step_size) ==
    LET w == update_wafer_properties(wafer_type)
    IN  /\ StepWith([wafer_mass |-> wafer_mass, wafer_radius |-> wafer_radius,
                     chuck_area |-> chuck_area])
        /\ wafer_mass' = w.wafer_mass
        /\ wafer_radius' = w.wafer_radius
        /\ chuck_area' = w.chuck_area

\* the properties refreshed at construction only
do_step_noRefresh(current_time, step_size) ==
    /\ StepWith([wafer_mass |-> wafer_mass, wafer_radius |-> wafer_radius,
                 chuck_area |-> chuck_area])
    /\ UNCHANGED internal

\* lines 112-113, then lines 119-141 on the refreshed properties
do_step(current_time, step_size) ==
    LET w == update_wafer_properties(wafer_type)
    IN  /\ wafer_mass' = w.wafer_mass
        /\ wafer_radius' = w.wafer_radius
        /\ chuck_area' = w.chuck_area
        /\ StepWith(w)

(**************************** lifecycle methods ****************************)
\* the outputs left as they are, as in the other lifecycle methods
setup_experiment_noClear(start_time) ==
    /\ result' = "True"
    /\ lastOp' = "setup_experiment"
    /\ phase' = PhaseAfter("setup_experiment", phase)
    /\ UNCHANGED <<inputs, outputs, params, internal, seen>>

setup_experiment(start_time) ==
    /\ slip_factor' = Zero
    /\ is_slipping' = FALSE
    /\ result' = "True"
    /\ lastOp' = "setup_experiment"
    /\ phase' = PhaseAfter("setup_experiment", phase)
    /\ UNCHANGED <<inputs, params, internal, max_safe_acceleration, seen>>

enter_initialization_mode ==
    /\ result' = "True"
    /\ lastOp' = "enter_initialization_mode"
    /\ phase' = PhaseAfter("enter_initialization_mode", phase)
    /\ UNCHANGED <<inputs, outputs, params, internal, seen>>

exit_initialization_mode ==
    /\ result' = "True"
    /\ lastOp' = "exit_initialization_mode"
    /\ phase' = PhaseAfter("exit_initialization_mode", phase)
    /\ UNCHANGED <<inputs, outputs, params, internal, seen>>

terminate ==
    /\ result' = "True"
    /\ lastOp' = "terminate"
    /\ phase' = PhaseAfter("terminate", phase)
    /\ UNCHANGED <<inputs, outputs, params, internal, seen>>

reset ==
    /\ slip_factor' = Zero
    /\ is_slipping' = FALSE
    /\ result' = "True"
    /\ lastOp' = "reset"
    /\ phase' = PhaseAfter("reset", phase)
    /\ UNCHANGED <<inputs, params, internal, max_safe_acceleration, seen>>

(******************* the orchestrator's variable accessors *****************)
\* a write to a registered variable stores the value and nothing else
Written ==
    /\ result' = "True"
    /\ lastOp' = "set"
    /\ phase' = phase
    /\ UNCHANGED <<outputs, internal, seen>>

set_angular_acceleration(v) ==
    /\ angular_acceleration' = v
    /\ Written
    /\ UNCHANGED <<vacuum_pressure, wafer_type, params>>

set_vacuum_pressure(v) ==
    /\ vacuum_pressure' = v
    /\ Written
    /\ UNCHANGED <<angular_acceleration, wafer_type, params>>

set_wafer_type(v) ==
    /\ wafer_type' = v
    /\ Written
    /\ UNCHANGED <<angular_acceleration, vacuum_pressure, params>>

set_mu_friction(v) ==
    /\ mu_friction' = v
    /\ Written
    /\ UNCHANGED <<inputs, safety_margin>>

set_safety_margin(v) ==
    /\ safety_margin' = v
    /\ Written
    /\ UNCHANGED <<inputs, mu_friction>>

\* after a step the orchestrator reads the three outputs and keeps them,
\* with the inputs and parameters it had set for that step
read_outputs ==
    /\ lastOp = "do_step"
    /\ seen' = [taken |-> TRUE, inputs |-> inputs, params |-> params,
                outputs |-> outputs]
    /\ lastOp' = "read_outputs"
    /\ UNCHANGED <<inputs, outputs, params, internal, phase, result>>

(***************************** specifications ******************************)
Lifecycle ==
    \/ \E t \in Times : setup_experiment(t)
    \/ enter_initialization_mode
    \/ exit_initialization_mode
    \/ terminate
    \/ reset

Step == \E t \in Times, h \in Times : do_step(t, h)

\* the orchestrator writes values of A, P, W, M, S to the five variables
Setters(A, P, W, M, S) ==
    \/ \E v \in A : set_angular_acceleration(v)
    \/ \E v \in P : set_vacuum_pressure(v)
    \/ \E v \in W : set_wafer_type(v)
    \/ \E v \in M : set_mu_friction(v)
    \/ \E v \in S : set_safety_margin(v)

\* Spec: every operation in every order, over the values of the test script
\* (src/FMU/test_fmu.py: 5 rad/s2, 53 kPa as a gauge pressure), a negative
\* friction coefficient and a margin equal to the sentinel
Accelerations == {Zero, RInt(5)}
Pressures == {Zero, RInt(0 - 53000)}
Frictions == {DefaultMu, Rat(0 - 6, 10)}
Margins == {DefaultMargin, RInt(999)}

Next ==
    \/ Lifecycle
    \/ Step
    \/ Setters(Accelerations, Pressures, WaferTypes, Frictions, Margins)

Spec == Init /\ [][Next]_vars

\* SpecProtocol: an orchestrator that keeps to the protocol, as the test
\* script does: every lifecycle operation and every step is called only in
\* a phase it is valid from
NextProtocol ==
    \/ phase \in ValidFrom("setup_experiment")
          /\ \E t \in Times : setup_experiment(t)
    \/ phase \in ValidFrom("enter_initialization_mode")
          /\ enter_initialization_mode
    \/ phase \in ValidFrom("exit_initialization_mode")
          /\ exit_initialization_mode
    \/ phase \in ValidFrom("do_step") /\ Step
    \/ phase \in ValidFrom("terminate") /\ terminate
    \/ phase \in ValidFrom("reset") /\ reset
    \/ Setters(Accelerations, Pressures, WaferTypes, Frictions, Margins)

SpecProtocol == Init /\ [][NextProtocol]_vars

\* SpecPhysics: steps between writes of inputs and parameters, over values
\* on both sides of the friction threshold and of the sentinel
WideAccelerations == {Zero, RInt(0 - 5), RInt(150000)}
WidePressures == {Zero, Rat(1, 2), RInt(1), RInt(0 - 53000)}
WideFrictions == {DefaultMu, Rat(0 - 6, 10)}
WideMargins == {DefaultMargin, RInt(999)}

NextPhysics ==
    \/ Step
    \/ reset
    \/ Setters(WideAccelerations, WidePressures, WaferTypes, WideFrictions,
               WideMargins)

SpecPhysics == Init /\ [][NextPhysics]_vars

\* SpecPairs: the orchestrator keeps the outputs of one step and compares
\* them with those of a later step
PairAccelerations == {RInt(0 - 5), RInt(150000)}
PairPressures == {Rat(1, 2), RInt(1), RInt(0 - 53000)}
PairTypes == {0 - TypeSpan, 1, 2}

NextPairs ==
    \/ Step
    \/ \E t \in Times : setup_experiment(t)
    \/ reset
    \/ read_outputs
    \/ \E v \in PairAccelerations : set_angular_acceleration(v)
    \/ \E v \in PairPressures : set_vacuum_pressure(v)
    \/ \E v \in PairTypes : set_wafer_type(v)

SpecPairs == Init /\ [][NextPairs]_vars

(********************************* claims **********************************)
\* C1: a step called in a phase other than Running fails with an ordering
\* error and leaves slip_factor, max_safe_acceleration and is_slipping as
\* they were.
C1_StepOnlyWhenRunning ==
    [][(lastOp' = "do_step" /\ phase \notin ValidFrom("do_step"))
          => (result' = "OrderingError" /\ outputs' = outputs)]_vars

\* C2: a lifecycle operation called in a phase it is not valid from is
\* reported as an ordering error and leaves the phase unchanged.
C2_TransitionsGuarded ==
    [][\A op \in LifecycleOps :
          (lastOp' = op /\ phase \notin ValidFrom(op))
              => (result' = "OrderingError" /\ phase' = phase)]_vars

\* C3: immediately after every step, is_slipping is true exactly when
\* slip_factor exceeds safety_margin.
C3_ThresholdConsistency ==
    lastOp = "do_step" => (is_slipping <=> RGt(slip_factor, safety_margin))

\* C3 witness: a step has produced the sentinel under a margin equal to it,
\* and the alarm is off.
C3_Witness ==
    /\ lastOp = "do_step"
    /\ slip_factor = RInt(999)
    /\ safety_margin = RInt(999)
    /\ ~is_slipping

\* what the orchestrator kept agrees with the engine in the listed respects
SameAcceleration == seen.inputs[1] = angular_acceleration
SamePressure == seen.inputs[2] = vacuum_pressure
SameType == seen.inputs[3] = wafer_type
SameParams == seen.params = params

\* C4: a step's outputs depend on the current inputs and parameters only: a
\* step taken with the inputs and parameters of an earlier step, whatever
\* was called or written in between, yields the outputs read after that
\* earlier step.
C4_Memoryless ==
    (lastOp = "do_step" /\ seen.taken /\ seen.inputs = inputs /\ SameParams)
        => outputs = seen.outputs

\* C4 witness: the outputs of a step on a 200mm wafer were kept, and a later
\* step with the same inputs has run.
C4_Witness ==
    /\ lastOp = "do_step"
    /\ seen.taken
    /\ seen.inputs = inputs
    /\ SameParams
    /\ wafer_type = 2
    /\ slip_factor # RInt(999)

\* the friction force of the step whose outputs were kept
SeenFriction == friction_force(seen.params[1], seen.inputs[2], chuck_area)
\* the friction force of the step just taken
NowFriction == friction_force(mu_friction, vacuum_pressure, chuck_area)

\* a later step differs from the kept one in pressure only, 0 < |p1| <= |p2|
PressureRaised ==
    /\ lastOp = "do_step"
    /\ seen.taken
    /\ SameAcceleration /\ SameType /\ SameParams
    /\ RGt(RAbs(seen.inputs[2]), Zero)
    /\ RLe(RAbs(seen.inputs[2]), RAbs(vacuum_pressure))

\* C5 as stated: with acceleration, wafer type and parameters fixed and
\* 0 < |p1| <= |p2|, the slip factor at p2 is at most the slip factor at p1,
\* on either side of the friction threshold.
C5_PressureMonotoneAcrossThreshold ==
    PressureRaised => RLe(slip_factor, seen.outputs[1])

\* C5 amended: the same, provided the step at p1 took the division branch
\* (friction force above 1e-3) or the step at p2 took the sentinel branch.
C5_PressureMonotoneWithinBranch ==
    (PressureRaised /\ (RGt(SeenFriction, FrictionThreshold)
                         \/ ~RGt(NowFriction, FrictionThreshold)))
        => RLe(slip_factor, seen.outputs[1])

\* C5 witness: both steps divided, and the higher pressure gave the strictly
\* lower slip factor.
C5_Witness ==
    /\ PressureRaised
    /\ RGt(SeenFriction, FrictionThreshold)
    /\ RLt(slip_factor, seen.outputs[1])

\* C6 as stated: after a step with zero pressure and nonzero acceleration,
\* slip_factor is 999 and is_slipping is true, whatever the parameters.
C6_SentinelAlwaysSlipping ==
    (lastOp = "do_step" /\ vacuum_pressure = Zero /\ angular_acceleration # Zero)
        => (slip_factor = RInt(999) /\ is_slipping)

\* C6 amended: after such a step slip_factor is 999, and is_slipping is true
\* exactly when safety_margin is below 999.
C6_SentinelSlippingBelowMargin ==
    (lastOp = "do_step" /\ vacuum_pressure = Zero /\ angular_acceleration # Zero)
        => (slip_factor = RInt(999)
            /\ (is_slipping <=> RLt(safety_margin, RInt(999))))

\* C6 witness: a 150mm wafer, negative friction coefficient, no vacuum, and
\* the alarm is on.
C6_Witness ==
    /\ lastOp = "do_step"
    /\ vacuum_pressure = Zero
    /\ angular_acceleration = RInt(150000)
    /\ wafer_type = 3
    /\ RLt(mu_friction, Zero)
    /\ slip_factor = RInt(999)
    /\ is_slipping

\* C7 as stated: in every state the stored mass and radius are the
\* resolver's values for the stored wafer_type.
C7_PropertiesAlwaysCurrent ==
    LET w == update_wafer_properties(wafer_type)
    IN  wafer_mass = w.wafer_mass /\ wafer_radius = w.wafer_radius

\* C7 amended: that holds after construction and after every step, and no
\* other operation changes the stored mass and radius.
C7_PropertiesCurrentAfterStep ==
    /\ [](lastOp \in {"__init__", "do_step"} => C7_PropertiesAlwaysCurrent)
    /\ [][lastOp' # "do_step" => UNCHANGED <<wafer_mass, wafer_radius>>]_vars

\* C7 witness: a step has refreshed the properties to those of a 150mm wafer.
C7_Witness ==
    /\ lastOp = "do_step"
    /\ wafer_type = 3
    /\ wafer_radius = Rat(75, 1000)
    /\ wafer_mass # DiscMass(Radius300)

\* C8: every wafer_type outside {1, 2, 3} resolves to the pair of type 1
\* without an error, and a step with such a type yields the outputs of the
\* same step with type 1.
C8_ResolverFallback ==
    /\ \A wt \in WaferTypes \ {1, 2, 3} :
           update_wafer_properties(wt) = update_wafer_properties(1)
    /\ (lastOp = "do_step" /\ wafer_type \notin {1, 2, 3})
           => /\ result = "True"
              /\ wafer_mass = DiscMass(Rat(150, 1000))
              /\ wafer_radius = Rat(150, 1000)
              /\ (seen.taken /\ seen.inputs[3] = 1 /\ SameAcceleration
                      /\ SamePressure /\ SameParams)
                     => outputs = seen.outputs

\* C8 witness: the outputs of a step with type 1 were kept, and a step with
\* a negative type and otherwise the same inputs has run.
C8_Witness ==
    /\ lastOp = "do_step"
    /\ wafer_type < 0
    /\ seen.taken
    /\ seen.inputs[3] = 1
    /\ SameAcceleration /\ SamePressure /\ SameParams
    /\ slip_factor # RInt(999)

\* C9: after reset the three outputs have their values at instantiation.
C9_ResetClearsOutputs ==
    lastOp = "reset"
        => (slip_factor = Zero /\ ~is_slipping /\ max_safe_acceleration = Zero)

\* C10 as stated: in every state slip_factor >= 0 and
\* max_safe_acceleration >= 0.
C10_OutputsNonNegative ==
    RGe(slip_factor, Zero) /\ RGe(max_safe_acceleration, Zero)

\* C10 amended: slip_factor >= 0 in every state, and max_safe_acceleration
\* >= 0 after every step taken with mu_friction >= 0.
C10_NonNegativeForNonNegativeMu ==
    /\ RGe(slip_factor, Zero)
    /\ (lastOp = "do_step" /\ RGe(mu_friction, Zero))
           => RGe(max_safe_acceleration, Zero)

\* C10 witness: a step with negative acceleration and negative pressure has
\* divided and produced positive outputs.
C10_Witness ==
    /\ lastOp = "do_step"
    /\ RLt(angular_acceleration, Zero)
    /\ RLt(vacuum_pressure, Zero)
    /\ RGt(mu_friction, Zero)
    /\ RGt(slip_factor, Zero)
    /\ slip_factor # RInt(999)
    /\ RGt(max_safe_acceleration, Zero)

\* a later step differs from the kept one in acceleration only, |a1| <= |a2|
AccelerationRaised ==
    /\ lastOp = "do_step"
    /\ seen.taken
    /\ SamePressure /\ SameType /\ SameParams
    /\ RLe(RAbs(seen.inputs[1]), RAbs(angular_acceleration))

\* C11: with pressure, wafer type and parameters fixed and |a1| <= |a2|, the
\* slip factor at a1 is at most the slip factor at a2, in the division branch
\* and in the sentinel branch.
C11_AccelerationMonotone ==
    AccelerationRaised => RLe(seen.outputs[1], slip_factor)

\* C11 witness: both steps divided, the second at an acceleration of larger
\* magnitude and opposite sign, and gave the strictly larger slip factor.
C11_Witness ==
    /\ AccelerationRaised
    /\ RLt(seen.inputs[1], Zero)
    /\ RGt(angular_acceleration, Zero)
    /\ RGt(NowFriction, FrictionThreshold)
    /\ RLt(seen.outputs[1], slip_factor)

\* C12: immediately after setup_experiment, whatever the outputs were before
\* and whatever start_time was passed, slip_factor is 0 and is_slipping is
\* false.
C12_SetupClearsAlarm ==
    [][lastOp' = "setup_experiment"
          => (slip_factor' = Zero /\ ~is_slipping')]_vars

\* C12 witness: setup_experiment has run after a step with a nonzero holding
\* force, and the alarm is cleared.
C12_Witness ==
    /\ lastOp = "setup_experiment"
    /\ max_safe_acceleration # Zero
    /\ angular_acceleration # Zero
    /\ slip_factor = Zero
    /\ ~is_slipping

\* C13: a step leaves the inputs, the parameters and the chuck contact area
\* as they were, and the chuck area has its value at construction in every
\* state.
C13_StepFrame ==
    /\ [][lastOp' = "do_step" => UNCHANGED <<inputs, params, chuck_area>>]_vars
    /\ [](chuck_area = RMul(Pi, RSquare(Rat(30, 1000))))

\* C13 witness: a step has run on a 200mm wafer with both parameters
\* overridden, and has changed the stored mass and radius.
C13_Witness ==
    /\ lastOp = "do_step"
    /\ wafer_type = 2
    /\ wafer_radius = Rat(100, 1000)
    /\ mu_friction # DefaultMu
    /\ safety_margin # DefaultMargin
    /\ vacuum_pressure # Zero
    /\ chuck_area = RMul(Pi, RSquare(Rat(30, 1000)))

\* slip_factor * max_safe_acceleration, as a float product
AlarmProduct == RMul(slip_factor, max_safe_acceleration)
\* safety_margin * max_safe_acceleration, as a float product
MarginAcceleration == RMul(safety_margin, max_safe_acceleration)
\* a step has just taken the division branch
Divided == lastOp = "do_step" /\ RGt(NowFriction, FrictionThreshold)

\* C14 as stated: after a step with friction_force > 1e-3,
\* slip_factor * max_safe_acceleration equals |angular_acceleration|, and
\* is_slipping is true exactly when |angular_acceleration| exceeds
\* safety_margin * max_safe_acceleration.
C14_AlarmsAgreeExactly ==
    Divided
        => /\ AlarmProduct = RAbs(angular_acceleration)
           /\ is_slipping <=> RGt(RAbs(angular_acceleration), MarginAcceleration)

\* 1 - 8 * 2^-MantissaBits and 1 + 8 * 2^-MantissaBits: eight units of
\* rounding error below and above one
SlightlyLess == Round(Pow2(MantissaBits) - 8, 0 - MantissaBits)
SlightlyMore == Round(Pow2(MantissaBits) + 8, 0 - MantissaBits)

\* C14 amended: after such a step the product lies within eight units of
\* rounding error of |angular_acceleration|; is_slipping is true when
\* |angular_acceleration| exceeds safety_margin * max_safe_acceleration by
\* more than that, and false when it falls short of it by more than that.
C14_AlarmsAgreeUpToRounding ==
    Divided
        => /\ RLe(RMul(SlightlyLess, RAbs(angular_acceleration)), AlarmProduct)
           /\ RLe(AlarmProduct, RMul(SlightlyMore, RAbs(angular_acceleration)))
           /\ RGt(RAbs(angular_acceleration), RMul(SlightlyMore, MarginAcceleration))
                  => is_slipping
           /\ RLt(RAbs(angular_acceleration), RMul(SlightlyLess, MarginAcceleration))
                  => ~is_slipping

\* C14 witness: a step has divided and raised the alarm, and the product of
\* the two outputs is not the acceleration's magnitude.
C14_Witness ==
    /\ Divided
    /\ angular_acceleration # Zero
    /\ is_slipping
    /\ AlarmProduct # RAbs(angular_acceleration)

====
